---- MODULE Spec2Model ----
(***************************************************************************)
(* State-machine model of GoZ/maya_tools.py: the ZBrushClient transport    *)
(* (connect, check_socket, send, load_confirm), the export / Parent Link   *)
(* stamping, the GoZBrushID reconciliation (get_gozid_mismatches, relink,  *)
(* create) against a Maya scene, and load / cleanup, which bring an object *)
(* back into the scene.                                                    *)
(*                                                                         *)
(* Python strings are sequences of one-character strings, so that          *)
(* str.split and str.join are computed and not assumed.  Python None is    *)
(* the empty string for a name-valued field, 0 for the socket handle and   *)
(* NoneObjs for the object list.                                           *)
(***************************************************************************)
EXTENDS Integers, Sequences, FiniteSets, TLC

VARIABLES status, sock, socks,
          objs, goz_obj, goz_id, goz_list,
          scene, selection, nodes, renamed,
          op, outcome, raised, tx, txSock, loadArgs

vars == <<status, sock, socks, objs, goz_obj, goz_id, goz_list,
          scene, selection, nodes, renamed,
          op, outcome, raised, tx, txSock, loadArgs>>

-----------------------------------------------------------------------------
(* Bounds *)

\* connect() calls that open a socket, per behaviour
MaxSockets == 2
\* longest construction history of an object in the initial scene
MaxHist == 1

-----------------------------------------------------------------------------
(* Strings *)

A == <<"A">>
B == <<"B">>
C == <<"C">>
\* the object names of the scene
Names == {A, B, C}
\* None, for a field that holds a name
None == <<>>
\* self.objs = None
NoneObjs == << <<>> >>

HASH == <<"#">>
COLON == <<":">>
OPEN == <<"o", "p", "e", "n", "|">>
CHECK == <<"c", "h", "e", "c", "k">>

\* is the separator character in s
HasChar(s, c) == \E i \in 1..Len(s) : s[i] = c

\* index of the first c in s (s holds one)
FirstIndex(s, c) == CHOOSE i \in 1..Len(s) :
                       s[i] = c /\ \A j \in 1..(i - 1) : s[j] # c

\* str.split(sep), sep one character
RECURSIVE Split(_, _)
Split(s, c) ==
    IF ~HasChar(s, c) THEN <<s>>
    ELSE LET i == FirstIndex(s, c)
         IN  <<SubSeq(s, 1, i - 1)>> \o Split(SubSeq(s, i + 1, Len(s)), c)

\* sep.join(list)
RECURSIVE Join(_, _)
Join(list, sep) ==
    IF list = <<>> THEN <<>>
    ELSE IF Len(list) = 1 THEN list[1]
    ELSE list[1] \o sep \o Join(Tail(list), sep)

\* x in list
InList(x, list) == \E i \in 1..Len(list) : list[i] = x

\* the list without repeated entries, first occurrences kept
RECURSIVE Dedup(_)
Dedup(list) ==
    IF list = <<>> THEN <<>>
    ELSE LET front == Dedup(SubSeq(list, 1, Len(list) - 1))
             last  == list[Len(list)]
         IN  IF InList(last, front) THEN front ELSE Append(front, last)

\* list.remove(x): the first x is dropped (x is in the list)
ListRemove(list, x) ==
    LET i == CHOOSE k \in 1..Len(list) :
                 list[k] = x /\ \A j \in 1..(k - 1) : list[j] # x
    IN  SubSeq(list, 1, i - 1) \o SubSeq(list, i + 1, Len(list))

-----------------------------------------------------------------------------
(* The Maya scene (maya.cmds): each object is a transform with one mesh    *)
(* shape.  GoZParent lives on the transform; GoZBrushID may live on the    *)
(* transform, on the shape and on nodes of the construction history.       *)
(* A name of the scene holds a node or none; node tells which one: it is   *)
(* the name the node had when it came into the scene, and it stays with    *)
(* the node through a rename.                                              *)

NoObj == [exists |-> FALSE, node |-> None, GoZParent |-> None,
          xformID |-> None, shapeID |-> None, history |-> <<>>]

\* cmds.objExists(name)
objExists(sc, name) == name \in Names /\ sc[name].exists

\* cmds.delete(obj, ch=True) / cmds.delete(ch=True) on the selected obj
deleteHistory(sc, obj) == [sc EXCEPT ![obj].history = <<>>]

\* cmds.delete(name)
deleteNode(sc, name) == [sc EXCEPT ![name] = NoObj]

\* renameNode that leaves the old name in place, as cmds.duplicate does
renameNode_mut(sc, obj, new) == [sc EXCEPT ![new] = sc[obj]]

\* cmds.rename(obj, new): new is free
renameNode(sc, obj, new) == [sc EXCEPT ![new] = sc[obj], ![obj] = NoObj]

\* cmds.listHistory(obj): the shape, then the construction history;
\* each node is given by the GoZBrushID it carries (None: no attribute)
listHistory(sc, obj) == <<sc[obj].shapeID>> \o sc[obj].history

\* the selection once a node is deleted
selDrop(sel, name) == SelectSeq(sel, LAMBDA n : n # name)

-----------------------------------------------------------------------------
(* Transport: sockets.  socks[i] is the i-th socket the client opened:     *)
(* "connected", "unconnected" (its connect failed) or "closed"; sock is    *)
(* the index self.sock refers to, 0 for None.                              *)

\* what sock.connect can raise (socket.timeout is a socket.error)
ConnectErrors == {"ECONNREFUSED", "ETIMEDOUT", "EHOSTUNREACH"}

\* what the peer can answer to one recv
Replies == {"ok", "loaded", "load", ""}

\* sock.close()
closeSock(ss, s) == IF s = 0 THEN ss ELSE [ss EXCEPT ![s] = "closed"]

\* outcomes of a send followed by one recv on socket s: the send raises,
\* the recv raises, or the recv returns a reply; a socket that is closed
\* or was never connected raises on send
IOResults(ss, s) ==
    IF ss[s] = "connected" THEN {"sendfail", "recverr"} \cup Replies
    ELSE {"sendfail"}

\* outcomes of one recv on socket s
RecvResults(ss, s) ==
    IF ss[s] = "connected" THEN {"recverr"} \cup Replies ELSE {"recverr"}

\* utils.validate_host / utils.validate_port on self.host, self.port: they
\* return, or raise for an empty host or a port outside 1..65535 (host and
\* port are attributes the caller may set between two calls)
ValidateResults == {"valid", "invalid"}

\* connect's handler: ZBrushServerError only if ECONNREFUSED in err
connect_raises(res) == res = "ECONNREFUSED"

\* self.status when connect returns or raises: False in the handler, then
\* True on the last line unless the handler raised
connect_status(res) == IF connect_raises(res) THEN FALSE ELSE TRUE

\* ZBrushClient.connect
connect ==
    LET closed == closeSock(socks, sock)
    IN  /\ op' = "connect"
        /\ UNCHANGED <<nodes, renamed, loadArgs>>
        /\ tx' = <<>>
        /\ UNCHANGED <<objs, goz_obj, goz_id, goz_list, scene, selection>>
        /\ \/ \* validate_host / validate_port raises
              /\ "invalid" \in ValidateResults
              /\ socks' = closed
              /\ status' = FALSE
              /\ sock' = sock
              /\ outcome' = "invalid"
              /\ raised' = "ConfigError"
              /\ txSock' = 0
           \/ /\ "valid" \in ValidateResults
              /\ Len(socks) < MaxSockets
              /\ \E res \in {"ok"} \cup ConnectErrors :
                   /\ socks' = Append(closed, IF res = "ok" THEN "connected"
                                              ELSE "unconnected")
                   /\ sock' = Len(socks) + 1
                   /\ status' = connect_status(res)
                   /\ outcome' = res
                   /\ raised' = IF connect_raises(res) THEN "ConnectionRefused"
                                ELSE "none"
                   /\ txSock' = Len(socks) + 1

\* check_alive with any non-empty reply taken as alive
check_alive_mut(res) == res # ""

\* check_socket: the reply that leaves the socket in place
check_alive(res) == res = "ok"

\* ZBrushClient.check_socket (its AttributeError handler is for a None
\* socket, which the first line has returned on)
check_socket ==
    /\ op' = "check_socket"
    /\ UNCHANGED <<nodes, renamed, loadArgs>>
    /\ raised' = "none"
    /\ UNCHANGED <<objs, goz_obj, goz_id, goz_list, scene, selection>>
    /\ IF sock = 0
       THEN /\ UNCHANGED <<status, sock, socks>>
            /\ outcome' = "none"
            /\ tx' = <<>>
            /\ txSock' = 0
       ELSE \E res \in IOResults(socks, sock) :
              /\ outcome' = res
              /\ txSock' = sock
              /\ tx' = IF res = "sendfail" THEN <<>> ELSE CHECK
              /\ IF res \in Replies /\ check_alive(res)
                 THEN UNCHANGED <<status, sock, socks>>
                 ELSE /\ status' = FALSE
                      /\ socks' = closeSock(socks, sock)
                      /\ sock' = 0

\* load_confirm: the reply that confirms the load
load_confirmed(res) == res = "loaded"

\* the socket handle after a reply that does not confirm
load_confirm_sock(s) == 0

\* load_confirm_result with self.status = False left out
load_confirm_result_mut(res) ==
    IF res = "recverr"
    THEN [status |-> status, sock |-> sock, raised |-> "socket.error"]
    ELSE IF load_confirmed(res)
    THEN [status |-> status, sock |-> sock, raised |-> "none"]
    ELSE [status |-> status, sock |-> load_confirm_sock(sock),
          raised |-> "ServerDown"]

\* ZBrushClient.load_confirm, the recv having given res: the client's
\* [status, sock, raised] afterwards
load_confirm_result(res) ==
    IF res = "recverr"
    THEN [status |-> status, sock |-> sock, raised |-> "socket.error"]
    ELSE IF load_confirmed(res)
    THEN [status |-> status, sock |-> sock, raised |-> "none"]
    ELSE [status |-> FALSE, sock |-> load_confirm_sock(sock),
          raised |-> "ServerDown"]

\* ZBrushClient.load_confirm called on its own
load_confirm ==
    /\ op' = "load_confirm"
    /\ UNCHANGED <<nodes, renamed, loadArgs>>
    /\ tx' = <<>>
    /\ UNCHANGED <<socks, objs, goz_obj, goz_id, goz_list, scene, selection>>
    /\ IF sock = 0
       THEN /\ UNCHANGED <<status, sock>>
            /\ outcome' = "none"
            /\ raised' = "AttributeError"
            /\ txSock' = 0
       ELSE \E res \in RecvResults(socks, sock) :
              /\ outcome' = res
              /\ txSock' = sock
              /\ IF load_confirmed(res) /\ objs = NoneObjs
                 THEN \* '\n'.join(None)
                      /\ UNCHANGED <<status, sock>>
                      /\ raised' = "TypeError"
                 ELSE LET r == load_confirm_result(res)
                      IN  /\ status' = r.status
                          /\ sock' = r.sock
                          /\ raised' = r.raised

-----------------------------------------------------------------------------
(* Export and send *)

\* export_root taking the latest new object (new_objects[-1])
export_root_mut(new_objects) == new_objects[Len(new_objects)]

\* export: the root of the objects that carry no GoZParent (new_objects[0])
export_root(new_objects) == new_objects[1]

\* export's loop from index idx on: the object list, the scene and the
\* selection it leaves, and whether it ran to the end (cmds.select raises
\* on a name that is no object).  The file written by cmds.file and the
\* os.chmod on it are outside the model.
RECURSIVE export_from(_, _, _, _, _)
export_from(idx, os, sc, new_objects, sel) ==
    IF idx > Len(os)
    THEN [ok |-> TRUE, objs |-> os, scene |-> sc, selection |-> sel]
    ELSE LET obj == os[idx]
         IN  IF ~objExists(sc, obj)
             THEN [ok |-> FALSE, objs |-> os, scene |-> sc, selection |-> <<>>]
             ELSE LET sc1    == deleteHistory(sc, obj)
                      has    == sc1[obj].GoZParent # None
                      new2   == IF has THEN new_objects
                                ELSE Append(new_objects, obj)
                      parent == IF has THEN sc1[obj].GoZParent
                                ELSE export_root(new2)
                      sc2    == IF has THEN sc1
                                ELSE [sc1 EXCEPT ![obj].GoZParent = parent]
                  IN  export_from(idx + 1,
                                  [os EXCEPT ![idx] = obj \o HASH \o parent],
                                  sc2, new2, <<obj>>)

\* ZBrushClient.export
export(os, sc, sel) ==
    IF os = NoneObjs
    THEN [ok |-> FALSE, objs |-> os, scene |-> sc, selection |-> sel,
          raised |-> "TypeError"]
    ELSE LET r == export_from(1, os, sc, <<>>, sel)
         IN  [ok |-> r.ok, objs |-> r.objs, scene |-> r.scene,
              selection |-> r.selection,
              raised |-> IF r.ok THEN "none" ELSE "MayaError"]

\* send: obj.split('#')[0] == obj.split('#')[1]
is_top(item) == Split(item, "#")[1] = Split(item, "#")[2]

\* sendlist with the two loops in the other order
sendlist_mut(items) ==
    SelectSeq(items, LAMBDA it : ~is_top(it)) \o SelectSeq(items, is_top)

\* send: top level objects first, then the others
sendlist(items) ==
    SelectSeq(items, is_top) \o SelectSeq(items, LAMBDA it : ~is_top(it))

\* send_exports with export run before the status is looked at
send_exports_mut(st) == TRUE

\* send: whether export runs (if self.status)
send_exports(st) == st

\* ZBrushClient.send
send ==
    /\ op' = "send"
    /\ UNCHANGED <<nodes, renamed, loadArgs>>
    /\ UNCHANGED <<goz_obj, goz_id, goz_list, socks>>
    /\ LET ex == IF send_exports(status) THEN export(objs, scene, selection)
                 ELSE [ok |-> FALSE, objs |-> objs, scene |-> scene,
                       selection |-> selection, raised |-> "none"]
       IN  /\ objs' = ex.objs
           /\ scene' = ex.scene
           /\ selection' = ex.selection
           /\ IF ~status
              THEN /\ UNCHANGED <<status, sock>>
                   /\ outcome' = "none"
                   /\ raised' = "NotConnected"
                   /\ tx' = <<>>
                   /\ txSock' = 0
              ELSE IF ~ex.ok
              THEN /\ UNCHANGED <<status, sock>>
                   /\ outcome' = "none"
                   /\ raised' = ex.raised
                   /\ tx' = <<>>
                   /\ txSock' = 0
              ELSE IF sock = 0
              THEN /\ UNCHANGED <<status, sock>>
                   /\ outcome' = "none"
                   /\ raised' = "AttributeError"
                   /\ tx' = <<>>
                   /\ txSock' = 0
              ELSE \E res \in IOResults(socks, sock) :
                     /\ outcome' = res
                     /\ txSock' = sock
                     /\ IF res = "sendfail"
                        THEN /\ UNCHANGED <<status, sock>>
                             /\ raised' = "socket.error"
                             /\ tx' = <<>>
                        ELSE LET r == load_confirm_result(res)
                             IN  /\ tx' = OPEN \o Join(sendlist(ex.objs), COLON)
                                 /\ status' = r.status
                                 /\ sock' = r.sock
                                 /\ raised' = r.raised

\* ZBrushClient.export called on its own
export_objs ==
    LET ex == export(objs, scene, selection)
    IN  /\ op' = "export"
        /\ UNCHANGED <<nodes, renamed, loadArgs>>
        /\ objs' = ex.objs
        /\ scene' = ex.scene
        /\ selection' = ex.selection
        /\ raised' = ex.raised
        /\ outcome' = IF ex.ok THEN "exported" ELSE "none"
        /\ tx' = <<>>
        /\ txSock' = 0
        /\ UNCHANGED <<status, sock, socks, goz_obj, goz_id, goz_list>>

\* ZBrushClient.parse_objs: every object is a mesh transform, so the list
\* is the selection; makeIdentity (freeze) is outside the model
parse_objs ==
    /\ op' = "parse_objs"
    /\ UNCHANGED <<nodes, renamed, loadArgs>>
    /\ objs' = selection
    /\ outcome' = IF selection # <<>> THEN "True" ELSE "False"
    /\ raised' = "none"
    /\ tx' = <<>>
    /\ txSock' = 0
    /\ UNCHANGED <<status, sock, socks, goz_obj, goz_id, goz_list, scene,
                   selection>>

-----------------------------------------------------------------------------
(* GoZBrushID reconciliation *)

\* id_differs with the comparison dropped
id_differs_mut(obj, id) == TRUE

\* get_gozid_mismatches: obj != goz_id
id_differs(obj, id) == obj # id

\* the records of the history nodes of obj that carry a GoZBrushID
RECURSIVE history_mismatches(_, _)
history_mismatches(obj, hist) ==
    IF hist = <<>> THEN <<>>
    ELSE (IF hist[1] # None /\ id_differs(obj, hist[1])
          THEN << <<obj, hist[1]>> >> ELSE <<>>)
         \o history_mismatches(obj, Tail(hist))

\* the records of one object of self.objs
obj_mismatches(sc, obj) ==
    IF sc[obj].xformID # None
    THEN IF id_differs(obj, sc[obj].xformID)
         THEN << <<obj, sc[obj].xformID>> >> ELSE <<>>
    ELSE history_mismatches(obj, listHistory(sc, obj))

\* the goz_list get_gozid_mismatches returns (every obj is in the scene)
RECURSIVE gozid_mismatches(_, _)
gozid_mismatches(sc, os) ==
    IF os = <<>> THEN <<>>
    ELSE obj_mismatches(sc, os[1]) \o gozid_mismatches(sc, Tail(os))

\* ZBrushClient.get_gozid_mismatches; goz_list is the list last returned
get_gozid_mismatches ==
    /\ op' = "get_gozid_mismatches"
    /\ UNCHANGED <<nodes, renamed, loadArgs>>
    /\ tx' = <<>>
    /\ txSock' = 0
    /\ UNCHANGED <<status, sock, socks, objs, goz_obj, goz_id, scene,
                   selection>>
    /\ IF objs = NoneObjs
       THEN /\ raised' = "TypeError"
            /\ outcome' = "none"
            /\ UNCHANGED goz_list
       ELSE IF \E i \in 1..Len(objs) : ~objExists(scene, objs[i])
       THEN /\ raised' = "MayaError"
            /\ outcome' = "none"
            /\ UNCHANGED goz_list
       ELSE /\ raised' = "none"
            /\ outcome' = "returned"
            /\ goz_list' = gozid_mismatches(scene, objs)

\* the caller (the dialog of the gui) takes one record of the returned
\* list as self.goz_obj, self.goz_id
set_conflict ==
    /\ \E i \in 1..Len(goz_list) :
         /\ goz_obj' = goz_list[i][1]
         /\ goz_id' = goz_list[i][2]
    /\ op' = "set_conflict"
    /\ UNCHANGED <<nodes, renamed, loadArgs>>
    /\ outcome' = "none"
    /\ raised' = "none"
    /\ tx' = <<>>
    /\ txSock' = 0
    /\ UNCHANGED <<status, sock, socks, objs, goz_list, scene, selection>>

\* relink_stamp that sets the transform only
relink_stamp_mut(sc, node, id) == [sc EXCEPT ![node].xformID = id]

\* relink: the GoZBrushID set on the shape and on the transform
relink_stamp(sc, node, id) ==
    [sc EXCEPT ![node].shapeID = id, ![node].xformID = id]

\* relink from line 381 on, obj being in the scene: the scene and the
\* selection it leaves, and what it raises
relink_scene(sc, sel, obj, id) ==
    LET pre_sel == sel
        sc1  == deleteHistory(sc, obj)
        dup  == objExists(sc1, id)
        sc2  == IF dup THEN deleteNode(sc1, id) ELSE sc1
        sel2 == IF dup THEN selDrop(sel, id) ELSE sel
    IN  IF ~objExists(sc2, obj)
        THEN \* cmds.rename of the object just deleted
             [scene |-> sc2, selection |-> sel2, raised |-> "MayaError",
              stamped |-> FALSE]
        ELSE LET sc3 == renameNode(sc2, obj, id)
                 sc4 == relink_stamp(sc3, id, id)
             IN  IF ~InList(obj, pre_sel)
                 THEN \* pre_sel.remove(obj)
                      [scene |-> sc4, selection |-> <<>>,
                       raised |-> "ValueError", stamped |-> TRUE]
                 ELSE LET new_sel == Append(ListRemove(pre_sel, obj), id)
                      IN  IF \A i \in 1..Len(new_sel) :
                                 objExists(sc4, new_sel[i])
                          THEN [scene |-> sc4, selection |-> Dedup(new_sel),
                                raised |-> "none", stamped |-> TRUE]
                          ELSE [scene |-> sc4, selection |-> <<>>,
                                raised |-> "MayaError", stamped |-> TRUE]

\* relink_skips with the test of line 374 dropped
relink_skips_mut(obj, os) == FALSE

\* relink, line 374: the call returns at once
relink_skips(obj, os) == ~InList(obj, os)

\* ZBrushClient.relink
relink ==
    /\ op' = "relink"
    /\ UNCHANGED <<nodes, renamed, loadArgs>>
    /\ tx' = <<>>
    /\ txSock' = 0
    /\ UNCHANGED <<status, sock, socks, objs, goz_obj, goz_id, goz_list>>
    /\ IF objs = NoneObjs
       THEN /\ raised' = "TypeError"
            /\ outcome' = "none"
            /\ UNCHANGED <<scene, selection>>
       ELSE IF relink_skips(goz_obj, objs)
       THEN /\ raised' = "none"
            /\ outcome' = "skipped"
            /\ UNCHANGED <<scene, selection>>
       ELSE IF ~objExists(scene, goz_obj)
       THEN \* cmds.delete(obj, ch=True)
            /\ raised' = "MayaError"
            /\ outcome' = "none"
            /\ UNCHANGED <<scene, selection>>
       ELSE LET r == relink_scene(scene, selection, goz_obj, goz_id)
            IN  /\ scene' = r.scene
                /\ selection' = r.selection
                /\ raised' = r.raised
                /\ outcome' = IF r.stamped THEN "relinked" ELSE "none"

\* create_stamp that sets nothing
create_stamp_mut(sc, obj) == sc

\* create: the GoZBrushID overwritten where the attribute exists
create_stamp(sc, obj) ==
    [sc EXCEPT ![obj].shapeID = IF @ # None THEN obj ELSE @,
               ![obj].xformID = IF @ # None THEN obj ELSE @]

\* ZBrushClient.create, called once the caller has set self.goz_obj
create ==
    /\ goz_obj # None
    /\ op' = "create"
    /\ UNCHANGED <<nodes, renamed, loadArgs>>
    /\ tx' = <<>>
    /\ txSock' = 0
    /\ UNCHANGED <<status, sock, socks, objs, goz_obj, goz_id, goz_list>>
    /\ IF ~objExists(scene, goz_obj)
       THEN /\ raised' = "MayaError"
            /\ outcome' = "none"
            /\ UNCHANGED <<scene, selection>>
       ELSE /\ scene' = create_stamp(deleteHistory(scene, goz_obj), goz_obj)
            /\ selection' = selection
            /\ raised' = "none"
            /\ outcome' = "created"

-----------------------------------------------------------------------------
(* The receiving side: load, called through the command port for each      *)
(* object ZBrush sends back, and cleanup.  Besides the objects the scene   *)
(* holds the auxiliary nodes a file brings in: nodes is the set of their   *)
(* names; renamed lists the names under which an import brought in a node  *)
(* while the name was taken (Maya gives such a node another name, so that  *)
(* it is one more node of the scene that no later cleanup finds).          *)

UNDERSCORE == <<"_">>
DIR == <<"/">>
EXT == <<".", "m", "a">>

GARBAGE_NODES ==
    << <<"b", "l", "i", "n", "n">>,
       <<"b", "l", "i", "n", "n", "S", "G">>,
       <<"m", "a", "t", "e", "r", "i", "a", "l", "I", "n", "f", "o">>,
       <<"Z", "B", "r", "u", "s", "h", "T", "e", "x", "t", "u", "r", "e">>,
       <<"p", "l", "a", "c", "e", "2", "d", "T", "e", "x", "t", "u", "r", "e",
         "2">> >>

\* name + '_' + node
garbage_name(name, node) == name \o UNDERSCORE \o node

\* the names of the nodes that cleanup looks for besides the object
garbage_names(name) ==
    {garbage_name(name, GARBAGE_NODES[i]) : i \in 1..Len(GARBAGE_NODES)}

\* every node name of the model
NodeNames == Names \cup UNION {garbage_names(n) : n \in Names}

\* utils.make_file_name(obj): the file of an object is named after it
make_file_name(obj) == DIR \o obj \o EXT

\* utils.split_file_name(file_path): the name of the file, without the
\* directories and the extension
split_file_name(file_path) ==
    LET parts == Split(file_path, "/")
    IN  Split(parts[Len(parts)], ".")[1]

\* cleanup_nodes that finds no node
cleanup_nodes_mut(ns, name, garbage) == ns

\* cleanup, the loop over GARBAGE_NODES: the auxiliary nodes left
RECURSIVE cleanup_nodes(_, _, _)
cleanup_nodes(ns, name, garbage) ==
    IF garbage = <<>> THEN ns
    ELSE LET node == garbage_name(name, garbage[1])
         IN  cleanup_nodes(IF node \in ns THEN ns \ {node} ELSE ns,
                           name, Tail(garbage))

\* cleanup(name): the scene, the selection and the auxiliary nodes it
\* leaves
cleanup(sc, sel, ns, name) ==
    [scene     |-> IF objExists(sc, name) THEN deleteNode(sc, name) ELSE sc,
     selection |-> IF objExists(sc, name) THEN selDrop(sel, name) ELSE sel,
     nodes     |-> cleanup_nodes(ns, name, GARBAGE_NODES)]

\* the mesh a file written by ZBrush holds: it is named after the file and
\* carries the GoZBrushID ZBrush gave it, and no GoZParent
ImportedObj(file_name) ==
    [exists |-> TRUE, node |-> file_name \o EXT, GoZParent |-> None,
     xformID |-> None, shapeID |-> file_name, history |-> <<>>]

\* the auxiliary nodes a file written by ZBrush holds
ImportedNodes(file_name) ==
    [i \in 1..Len(GARBAGE_NODES) |-> garbage_name(file_name, GARBAGE_NODES[i])]

\* cmds.file(file_path, i=True, usingNamespaces=False): every node of the
\* file comes into the scene, under its name where the name is free
import_file(sc, ns, rn, file_name) ==
    LET taken(x) == objExists(sc, x) \/ x \in ns
        created  == <<file_name>> \o ImportedNodes(file_name)
    IN  [scene   |-> IF taken(file_name) THEN sc
                     ELSE [sc EXCEPT ![file_name] = ImportedObj(file_name)],
         nodes   |-> ns \cup garbage_names(file_name),
         renamed |-> rn \o SelectSeq(created, taken)]

\* load_stamp that takes the object's own name for the parent
load_stamp_mut(sc, obj_name, parent_name) ==
    [sc EXCEPT ![obj_name].GoZParent = obj_name]

\* load, lines 105-106: GoZParent added and set
load_stamp(sc, obj_name, parent_name) ==
    [sc EXCEPT ![obj_name].GoZParent = parent_name]

\* load(file_path, obj_name, parent_name): what it leaves and raises
load_result(sc, sel, ns, rn, file_path, obj_name, parent_name) ==
    LET file_name == split_file_name(file_path)
        cl == cleanup(sc, sel, ns, file_name)
        im == import_file(cl.scene, cl.nodes, rn, file_name)
        attr_ok == /\ objExists(im.scene, obj_name)
                   /\ im.scene[obj_name].GoZParent = None
    IN  [scene     |-> IF attr_ok
                       THEN load_stamp(im.scene, obj_name, parent_name)
                       ELSE im.scene,
         selection |-> cl.selection,
         nodes     |-> im.nodes,
         renamed   |-> im.renamed,
         \* cmds.addAttr on a missing node or an attribute that exists
         raised    |-> IF attr_ok THEN "none" ELSE "MayaError"]

\* load, called with the file ZBrush wrote for the object obj_name
load ==
    \E obj_name \in Names, parent_name \in Names :
      LET file_path == make_file_name(obj_name)
          r == load_result(scene, selection, nodes, renamed,
                           file_path, obj_name, parent_name)
      IN  /\ op' = "load"
          /\ loadArgs' = <<file_path, obj_name, parent_name>>
          /\ scene' = r.scene
          /\ selection' = r.selection
          /\ nodes' = r.nodes
          /\ renamed' = r.renamed
          /\ raised' = r.raised
          /\ outcome' = IF r.raised = "none" THEN "imported" ELSE "none"
          /\ tx' = <<>>
          /\ txSock' = 0
          /\ UNCHANGED <<status, sock, socks, objs, goz_obj, goz_id,
                         goz_list>>

-----------------------------------------------------------------------------
(* Initial states: the client as __init__ leaves it, and a scene.          *)

\* an object that was never sent nor received
Plain == [exists |-> TRUE, node |-> None, GoZParent |-> None,
          xformID |-> None, shapeID |-> None, history |-> <<>>]

\* what a GoZParent attribute can hold
ParentValues == Names \cup {None}

\* construction histories: per node the GoZBrushID it carries, or None
Histories == UNION {[1..n -> Names \cup {None}] : n \in 1..MaxHist}

\* the ways an object can carry GoZBrushID: on transform and shape (as
\* relink leaves it), on one of them, or on nodes of its history
TagProfiles ==
    {[Plain EXCEPT !.xformID = t, !.shapeID = t] : t \in Names}
    \cup {[Plain EXCEPT !.xformID = t] : t \in Names}
    \cup {[Plain EXCEPT !.shapeID = t] : t \in Names}
    \cup {[Plain EXCEPT !.history = h] : h \in Histories}
    \cup {[Plain EXCEPT !.shapeID = t, !.history = h] :
             t \in Names, h \in Histories}
    \cup {Plain}

\* scenes of three objects with any GoZParent and no GoZBrushID
SendScenes ==
    {[n \in Names |-> [Plain EXCEPT !.node = n, !.GoZParent = p[n]]] :
        p \in [Names -> ParentValues]}

\* scenes of two objects with any GoZBrushID, the name C free
ReconScenes ==
    {[n \in Names |-> IF n = C THEN NoObj ELSE [t[n] EXCEPT !.node = n]] :
        t \in [{A, B} -> TagProfiles]}

\* the selection: the objects in the order A, B, C up to some object
\* (every other selection is one of these with the objects renamed)
InitSelections(sc) ==
    {sel \in {<<>>, <<A>>, <<A, B>>, <<A, B, C>>} :
        \A i \in 1..Len(sel) : objExists(sc, sel[i])}

\* ZBrushClient.__init__
InitClient ==
    /\ status = FALSE
    /\ sock = 0
    /\ socks = <<>>
    /\ objs = NoneObjs
    /\ goz_obj = None
    /\ goz_id = None
    /\ goz_list = <<>>
    /\ op = "init"
    /\ outcome = "none"
    /\ raised = "none"
    /\ tx = <<>>
    /\ txSock = 0

\* no file was imported yet: the scene holds no auxiliary node
InitNodes ==
    /\ nodes = {}
    /\ renamed = <<>>
    /\ loadArgs = <<>>

Init ==
    /\ InitClient
    /\ InitNodes
    /\ scene \in SendScenes
    /\ selection \in InitSelections(scene)

InitRecon ==
    /\ InitClient
    /\ InitNodes
    /\ scene \in ReconScenes
    /\ selection \in InitSelections(scene)

\* Three specifications share the client and the scene.  The transport
\* reaches the scene through export only and reconciliation never reads
\* the transport, so Spec runs the transport with export over scenes that
\* vary GoZParent, and SpecRecon runs every operation on the scene, export
\* included, over scenes that vary GoZBrushID.  SpecLoad runs load with
\* export over scenes that vary which objects there are.

\* the transfer: transport, export and send
Next ==
    \/ connect
    \/ check_socket
    \/ send
    \/ load_confirm
    \/ parse_objs
    \/ export_objs

\* the reconciliation: everything that reads or writes the scene
NextRecon ==
    \/ parse_objs
    \/ export_objs
    \/ get_gozid_mismatches
    \/ set_conflict
    \/ relink
    \/ create

\* scenes of objects made in Maya, never sent nor received
LoadScenes ==
    {[n \in Names |-> IF n \in S THEN [Plain EXCEPT !.node = n] ELSE NoObj] :
        S \in SUBSET Names}

InitLoad ==
    /\ InitClient
    /\ InitNodes
    /\ scene \in LoadScenes
    /\ selection \in InitSelections(scene)

\* the round trip: objects are exported, and loaded when they come back
NextLoad ==
    \/ load
    \/ parse_objs
    \/ export_objs

Spec == Init /\ [][Next]_vars

SpecRecon == InitRecon /\ [][NextRecon]_vars

SpecLoad == InitLoad /\ [][NextLoad]_vars

-----------------------------------------------------------------------------
(* Properties *)

\* the two fields of a transfer item name#parent
ItemName(item) == Split(item, "#")[1]
ItemParent(item) == Split(item, "#")[2]
ItemIsTop(item) == ItemName(item) = ItemParent(item)

\* the items of a transmitted message open|item:item:...
MessageItems(msg) == Split(SubSeq(msg, Len(OPEN) + 1, Len(msg)), ":")

\* C1: the message send transmits for a non-empty object set is 'open|'
\* followed by the exported items, each once, every item whose name equals
\* its parent before every item where they differ, and the order of the
\* object set kept inside each of the two groups.
C1_SendOrder ==
    (op = "send" /\ tx # <<>> /\ objs # <<>>) =>
        /\ SubSeq(tx, 1, Len(OPEN)) = OPEN
        /\ LET sent == MessageItems(tx)
               n    == Len(objs)
           IN  /\ Len(sent) = n
               /\ \E p \in [1..n -> 1..n] :
                    /\ \A i, j \in 1..n : p[i] = p[j] => i = j
                    /\ \A i \in 1..n : sent[i] = objs[p[i]]
                    /\ \A i, j \in 1..n :
                         (ItemIsTop(sent[i]) /\ ~ItemIsTop(sent[j])) => i < j
                    /\ \A i, j \in 1..n :
                         (i < j /\ ItemIsTop(sent[i]) = ItemIsTop(sent[j]))
                            => p[i] < p[j]

\* a message of three items was sent in which a top-level item was moved
\* in front of an item that came before it in the object set
C1_Witness ==
    /\ op = "send"
    /\ tx # <<>>
    /\ Len(objs) = 3
    /\ ~ItemIsTop(objs[1])
    /\ ItemIsTop(objs[2])
    /\ ItemIsTop(objs[3])
    /\ MessageItems(tx) = <<objs[2], objs[3], objs[1]>>

\* C2: a connect that fails for a socket-level reason leaves status False
\* and raises an error to the caller.
C2_FailedConnect ==
    (op = "connect" /\ outcome \in ConnectErrors) =>
        (status = FALSE /\ raised # "none")

\* C3: after a send, the confirmation succeeds iff the response is exactly
\* 'loaded'; every other outcome raises and leaves status False and the
\* socket handle cleared.
C3_ConfirmExact ==
    (op = "send" /\ outcome \in Replies \cup {"recverr"}) =>
        /\ (raised = "none") <=> (outcome = "loaded")
        /\ outcome # "loaded" => (raised # "none" /\ status = FALSE /\ sock = 0)

\* C4: check_socket on a client holding a socket raises nothing; it leaves
\* the client connected with its socket only when 'check' was sent and the
\* reply was exactly 'ok', and otherwise status is False, the socket is
\* closed and the handle cleared.
C4_ProbeExact ==
    (op = "check_socket" /\ txSock # 0) =>
        /\ raised = "none"
        /\ (status /\ sock # 0) => outcome = "ok"
        /\ outcome = "ok" =>
              (status /\ sock = txSock /\ socks[sock] = "connected"
                 /\ tx = CHECK)
        /\ outcome # "ok" =>
              (status = FALSE /\ sock = 0 /\ socks[txSock] = "closed")

\* check_socket got a reply other than 'ok' from a connected peer
C4_Witness ==
    /\ op = "check_socket"
    /\ txSock # 0
    /\ outcome \in Replies \ {"ok"}
    /\ tx = CHECK
    /\ sock = 0

\* C5: send on a client that is not connected raises 'not connected' and
\* changes nothing else: no export, no stamp, same object set, nothing
\* transmitted.
C5_SendNotConnected ==
    [][(op' = "send" /\ ~status) =>
          /\ raised' = "NotConnected"
          /\ tx' = <<>>
          /\ txSock' = 0
          /\ UNCHANGED <<scene, objs, selection, status, sock, socks>>]_vars

\* send was refused for lack of a connection while the object set held an
\* object that carries no GoZParent
C5_Witness ==
    /\ op = "send"
    /\ raised = "NotConnected"
    /\ objs # NoneObjs
    /\ \E i \in 1..Len(objs) :
         objExists(scene, objs[i]) /\ scene[objs[i]].GoZParent = None

\* export ran to its end in the last operation
ExportRan ==
    \/ op = "send" /\ outcome # "none"
    \/ op = "export" /\ outcome = "exported"

\* the first object of the list that carries no GoZParent
FirstUnstamped(os, sc) ==
    os[CHOOSE i \in 1..Len(os) :
          /\ sc[os[i]].GoZParent = None
          /\ \A j \in 1..(i - 1) : sc[os[j]].GoZParent # None]

\* the parent the claim gives an object of the list
ExpectedParent(os, sc, obj) ==
    IF sc[obj].GoZParent # None THEN sc[obj].GoZParent
    ELSE FirstUnstamped(os, sc)

\* C6: in one export each item is name#parent, parent being the GoZParent
\* the object carried before the call or else the first object of the call
\* that carried none, which every unstamped object is stamped with; so
\* [A, B, C] without GoZParent give A#A, B#A, C#A.
C6_ExportItems ==
    [][ExportRan' =>
          /\ Len(objs') = Len(objs)
          /\ \A i \in 1..Len(objs) :
               LET parent == ExpectedParent(objs, scene, objs[i])
               IN  /\ objs'[i] = objs[i] \o HASH \o parent
                   /\ scene'[objs[i]].GoZParent = parent
          /\ (/\ objs = <<A, B, C>>
              /\ \A n \in Names : scene[n].GoZParent = None)
             => objs' = <<A \o HASH \o A, B \o HASH \o A, C \o HASH \o A>>]_vars

\* A, B, C were exported as A#A, B#A, C#A
C6_Witness ==
    /\ ExportRan
    /\ objs = <<A \o HASH \o A, B \o HASH \o A, C \o HASH \o A>>
    /\ \A n \in Names : scene[n].GoZParent = A

\* C7: get_gozid_mismatches changes neither scene, selection nor object
\* set, and for an object that carries GoZBrushID it returns the record
\* (name, tag) iff the tag differs from the name, and no other record.
C7_MismatchPure ==
    [][(op' = "get_gozid_mismatches") =>
          /\ UNCHANGED <<scene, selection, objs>>
          /\ outcome' = "returned" =>
               \A i \in 1..Len(objs) :
                 LET obj == objs[i]
                     tag == scene[obj].xformID
                 IN  tag # None =>
                       /\ InList(<<obj, tag>>, goz_list') <=> (tag # obj)
                       /\ \A k \in 1..Len(goz_list') :
                            goz_list'[k][1] = obj => goz_list'[k][2] = tag]_vars

\* a pass returned a record for a renamed object and none for an object
\* whose tag is its name
C7_Witness ==
    /\ op = "get_gozid_mismatches"
    /\ outcome = "returned"
    /\ objs = <<A, B>>
    /\ scene[A].xformID = A
    /\ scene[B].xformID = C
    /\ goz_list = << <<B, C>> >>

\* C8: after relink of (obj, tag) the renamed object carries GoZBrushID =
\* tag on shape and transform and a detection pass over it gives no
\* record; relink called again changes nothing.
C8_RelinkConverges ==
    [][/\ (op' = "relink" /\ outcome' = "relinked") =>
            /\ objExists(scene', goz_id)
            /\ scene'[goz_id].xformID = goz_id
            /\ scene'[goz_id].shapeID = goz_id
            /\ obj_mismatches(scene', goz_id) = <<>>
            /\ gozid_mismatches(scene', <<goz_id>>) = <<>>
       /\ (op = "relink" /\ outcome = "relinked" /\ op' = "relink") =>
            UNCHANGED <<scene, selection, objs, goz_obj, goz_id>>]_vars

\* relink renamed an object whose tag sat in its history only
C8_Witness ==
    /\ op = "relink"
    /\ outcome = "relinked"
    /\ raised = "none"
    /\ goz_obj = A
    /\ goz_id = C
    /\ ~objExists(scene, A)
    /\ scene[C].xformID = C
    /\ scene[C].shapeID = C

\* the transport failed in the last operation
Faulted ==
    \/ op = "connect" /\ outcome \in ConnectErrors
    \/ op = "check_socket" /\ txSock # 0 /\ outcome # "ok"
    \/ op \in {"send", "load_confirm"}
         /\ outcome \in (Replies \ {"loaded"}) \cup {"recverr"}

\* C9: once the transport has faulted and the client is not connected, the
\* socket handle is cleared.
C9_FaultedHandleCleared == (Faulted /\ ~status) => sock = 0

\* C10: after a send that transmitted, the object set still holds the plain
\* object references.
C10_ObjsNotPersisted ==
    (op = "send" /\ tx # <<>>) =>
        \A i \in 1..Len(objs) : objExists(scene, objs[i])

\* C12 as stated: in a transmitted message every item whose parent is the
\* name of another item of the message comes after that item.
C12_ParentFirst ==
    (op = "send" /\ tx # <<>> /\ objs # <<>>) =>
        LET sent == MessageItems(tx)
        IN  \A i, j \in 1..Len(sent) :
              (i # j /\ ItemParent(sent[j]) = ItemName(sent[i])) => i < j

\* C12: in a transmitted message every item whose parent is the name of a
\* top-level item of the message (an item whose name is its own parent)
\* comes after that item, whatever the order of the object set and whichever
\* of the objects were stamped before the call.
C12_TopParentFirst ==
    (op = "send" /\ tx # <<>> /\ objs # <<>>) =>
        LET sent == MessageItems(tx)
        IN  \A i, j \in 1..Len(sent) :
              (/\ i # j
               /\ ItemIsTop(sent[i])
               /\ ItemParent(sent[j]) = ItemName(sent[i])) => i < j

\* a message was sent in which a dependent that came first in the object
\* set follows its top-level parent
C12_Witness ==
    /\ op = "send"
    /\ tx # <<>>
    /\ Len(objs) = 3
    /\ objs[1] = A \o HASH \o C
    /\ objs[3] = C \o HASH \o C
    /\ MessageItems(tx) = <<objs[2], objs[3], objs[1]>>

\* C13: every socket the client opened and no longer holds as self.sock is
\* closed, so that at most one socket of the client is unclosed.
C13_NoAbandonedSocket ==
    /\ \A i \in 1..Len(socks) : i # sock => socks[i] = "closed"
    /\ Cardinality({i \in 1..Len(socks) : socks[i] # "closed"}) <= 1

\* C19: status is True only while the client holds a socket handle.
C19_StatusHasSocket == status => sock # 0

\* a confirmation that failed cleared the handle of a client that was
\* connected
C19_Witness ==
    /\ op \in {"send", "load_confirm"}
    /\ outcome \in Replies \ {"loaded"}
    /\ txSock # 0
    /\ sock = 0
    /\ ~status

\* the records of a list that name obj
RecordsOf(list, obj) == {k \in 1..Len(list) : list[k][1] = obj}

\* C14: a pass returns at most one record per object of the object set.
C14_OneRecordPerObject ==
    (op = "get_gozid_mismatches" /\ outcome = "returned") =>
        \A i \in 1..Len(objs) : Cardinality(RecordsOf(goz_list, objs[i])) <= 1

\* relink got past its first guard and found its object in the scene
RelinkRuns ==
    /\ objs # NoneObjs
    /\ InList(goz_obj, objs)
    /\ objExists(scene, goz_obj)

\* C15: after relink of (obj, tag) the name tag holds the node that was
\* named obj, the name obj holds nothing, and the node that held the name
\* tag before is in the scene no more.
C15_RelinkRenames ==
    [][(op' = "relink" /\ outcome' = "relinked") =>
          /\ objExists(scene', goz_id)
          /\ scene'[goz_id].node = scene[goz_obj].node
          /\ ~objExists(scene', goz_obj)
          /\ objExists(scene, goz_id) =>
               \A n \in Names :
                 scene'[n].exists => scene'[n].node # scene[goz_id].node
          /\ \A n \in Names \ {goz_obj, goz_id} : scene'[n] = scene[n]]_vars

\* relink gave the node A the name B, which the node B had held
C15_Witness ==
    /\ op = "relink"
    /\ outcome = "relinked"
    /\ goz_obj = A
    /\ goz_id = B
    /\ ~objExists(scene, A)
    /\ scene[B].exists
    /\ scene[B].node = A
    /\ \A n \in Names : scene[n].exists => scene[n].node # B

\* C16: a relink that runs raises nothing and leaves selected every other
\* object that was selected, the renamed object where the original was
\* selected, and no name that holds nothing.
C16_RelinkSelection ==
    [][(op' = "relink" /\ RelinkRuns) =>
          /\ raised' = "none"
          /\ \A n \in Names \ {goz_obj, goz_id} :
               InList(n, selection) => InList(n, selection')
          /\ InList(goz_obj, selection) => InList(goz_id, selection')
          /\ \A i \in 1..Len(selection') :
               objExists(scene', selection'[i])]_vars

\* C17: create on an object in conflict leaves no record for it in a pass
\* over the scene; the object keeps its name and its node, every other
\* object is as it was, and GoZBrushID is set to the name on the shape and
\* on the transform where it was present and is absent where it was absent.
C17_CreateResolves ==
    [][(op' = "create" /\ outcome' = "created") =>
          /\ obj_mismatches(scene', goz_obj) = <<>>
          /\ gozid_mismatches(scene', <<goz_obj>>) = <<>>
          /\ objExists(scene', goz_obj)
          /\ scene'[goz_obj].node = scene[goz_obj].node
          /\ \A n \in Names \ {goz_obj} : scene'[n] = scene[n]
          /\ scene'[goz_obj].xformID =
                (IF scene[goz_obj].xformID = None THEN None ELSE goz_obj)
          /\ scene'[goz_obj].shapeID =
                (IF scene[goz_obj].shapeID = None THEN None ELSE goz_obj)]_vars

\* create ran on an object whose old tag sat on a history node only
C17_Witness ==
    /\ op = "create"
    /\ outcome = "created"
    /\ goz_obj = A
    /\ goz_id = C
    /\ InList(<<A, C>>, goz_list)
    /\ scene[A].exists
    /\ scene[A].node = A
    /\ scene[A].xformID = None
    /\ scene[A].shapeID = None

\* C20: relink called while goz_obj is not in the object set changes
\* neither the scene nor the selection nor the client, and raises nothing
\* when there is an object set.
C20_RelinkSkips ==
    [][(op' = "relink" /\ (objs = NoneObjs \/ ~InList(goz_obj, objs))) =>
          /\ objs # NoneObjs => raised' = "none"
          /\ UNCHANGED <<scene, selection, objs, goz_obj, goz_id, goz_list,
                         status, sock, socks>>]_vars

\* relink returned at once for an object that is in the scene
C20_Witness ==
    /\ op = "relink"
    /\ outcome = "skipped"
    /\ goz_obj # None
    /\ objExists(scene, goz_obj)
    /\ objExists(scene, goz_id)

\* C11: after load(file_path, obj_name, parent_name) the scene holds an
\* object named obj_name whose GoZParent is parent_name, and nothing was
\* raised; so A, exported as A#A and loaded with parent A, is the object A
\* with GoZParent A, whether or not the name A held an object before.
C11_LoadStamps ==
    op = "load" =>
        /\ raised = "none"
        /\ objExists(scene, loadArgs[2])
        /\ scene[loadArgs[2]].GoZParent = loadArgs[3]

\* A was exported as A#A, then loaded with parent A in place of the
\* object that was exported
C11_Witness ==
    /\ op = "load"
    /\ objs = <<A \o HASH \o A>>
    /\ loadArgs = <<make_file_name(A), A, A>>
    /\ scene[A].exists
    /\ scene[A].node = A \o EXT
    /\ scene[A].GoZParent = A

\* the nodes of the scene that came in under the name x
NodeCount(sc, ns, rn, x) ==
    (IF objExists(sc, x) \/ x \in ns THEN 1 ELSE 0)
        + Cardinality({k \in 1..Len(rn) : rn[k] = x})

\* C18: a load imports no node under a name that is taken, so that after
\* it the scene holds one node of the object's name, which is the mesh of
\* the file, and at most one of each garbage name; objects and auxiliary
\* nodes of other names are as they were.
C18_NoDuplicates ==
    [][op' = "load" =>
          LET name == split_file_name(loadArgs'[1])
          IN  /\ renamed' = renamed
              /\ \A x \in NodeNames :
                   NodeCount(scene', nodes', renamed', x) <= 1
              /\ NodeCount(scene', nodes', renamed', name) = 1
              /\ scene'[name].node = ImportedObj(name).node
              /\ \A n \in Names \ {name} : scene'[n] = scene[n]
              /\ nodes' \ garbage_names(name) = nodes \ garbage_names(name)
              /\ \A x \in garbage_names(name) :
                   NodeCount(scene', nodes', renamed', x) = 1]_vars

\* A was loaded with parent B, exported, and loaded again with parent C
C18_Witness ==
    /\ op = "load"
    /\ objs = <<A \o HASH \o B>>
    /\ loadArgs = <<make_file_name(A), A, C>>
    /\ scene[A].GoZParent = C
    /\ garbage_names(A) \subseteq nodes
    /\ \A x \in NodeNames : NodeCount(scene, nodes, renamed, x) <= 1

====
